---- MODULE Spec2Model ----
(***************************************************************************)
(* Model of the Feishu rich-text converter of pkg/channels/feishu:         *)
(* buildFeishuContent -> markdownToFeishuPost -> parseInlineElements.      *)
(*                                                                         *)
(* A Go string is modelled as a sequence of characters, each character a   *)
(* one-rune TLA+ string.  Offsets are 0-based as in Go; sequences are      *)
(* 1-based, so s[k+1] is the character at Go offset k.                     *)
(***************************************************************************)
EXTENDS Integers, Sequences, FiniteSets, TLC

(***************************************************************************)
(* Bounds of the explored inputs.                                          *)
(***************************************************************************)
MaxFrags == 3

MaxSpans == 4

MaxLines == 3

(***************************************************************************)
(* Characters and character classes.                                       *)
(***************************************************************************)
\* runes that cannot be written inside a TLA+ string
Bullet == "U+2022"

Backtick == "U+0060"

\* unicode.IsSpace, the class strings.TrimSpace removes
IsSpace(c) == c \in {"\t", "\n", "U+000B", "\f", "\r", " ", "U+0085", "U+00A0"}

\* the regexp class \s
ReSpace == {"\t", "\n", "\f", "\r", " "}

\* the regexp class . (without the s flag)
IsDot(c) == c # "\n"

IsDigit(c) == c \in {"0", "1", "2", "3", "4", "5", "6", "7", "8", "9"}

Min(S) == CHOOSE x \in S : \A y \in S : x <= y

(***************************************************************************)
(* package strings                                                         *)
(***************************************************************************)
HasPrefix(s, p) == Len(s) >= Len(p) /\ SubSeq(s, 1, Len(p)) = p

TrimSpace(s) ==
  LET keep == {k \in 1..Len(s) : ~IsSpace(s[k])}
  IN  IF keep = {} THEN <<>>
      ELSE SubSeq(s, Min(keep), CHOOSE x \in keep : \A y \in keep : y <= x)

RECURSIVE Split(_)
\* strings.Split(text, "\n")
Split(text) ==
  LET nl == {k \in 1..Len(text) : text[k] = "\n"}
  IN  IF nl = {} THEN <<text>>
      ELSE <<SubSeq(text, 1, Min(nl) - 1)>> \o Split(SubSeq(text, Min(nl) + 1, Len(text)))

RECURSIVE Join(_)
\* strings.Join(elems, "\n")
Join(elems) ==
  IF elems = <<>> THEN <<>>
  ELSE IF Len(elems) = 1 THEN elems[1]
  ELSE elems[1] \o <<"\n">> \o Join(Tail(elems))

(***************************************************************************)
(* The regular expressions.  A match is [start, end, groups] with Go       *)
(* offsets (end exclusive); NoLoc is the nil result of                     *)
(* FindStringSubmatchIndex.  Each Find returns the leftmost match.         *)
(***************************************************************************)
NoLoc == [start |-> -1, end |-> -1, groups |-> <<>>]

\* the match at the smallest offset, locs[p] being the match tried at offset p
Leftmost(locs) ==
  LET starts == {p \in DOMAIN locs : locs[p].start >= 0}
  IN  IF starts = {} THEN NoLoc ELSE locs[Min(starts)]

\* \[([^\]]+)\]\(([^)]+)\) tried at offset p
reMdLinkAt(s, p) ==
  IF s[p + 1] # "[" THEN NoLoc
  ELSE
    LET rb == {j \in (p + 2)..Len(s) : s[j] = "]"}
    IN  IF rb = {} \/ Min(rb) = p + 2 THEN NoLoc
        ELSE
          LET j == Min(rb)
          IN  IF j + 1 > Len(s) \/ s[j + 1] # "(" THEN NoLoc
              ELSE
                LET rp == {k \in (j + 2)..Len(s) : s[k] = ")"}
                IN  IF rp = {} \/ Min(rp) = j + 2 THEN NoLoc
                    ELSE [start |-> p, end |-> Min(rp),
                          groups |-> <<SubSeq(s, p + 2, j - 1),
                                       SubSeq(s, j + 2, Min(rp) - 1)>>]

reMdLink(s) == Leftmost([p \in 0..(Len(s) - 1) |-> reMdLinkAt(s, p)])

\* `([^`]+)` tried at offset p
reInlineCodeAt(s, p) ==
  IF s[p + 1] # Backtick THEN NoLoc
  ELSE
    LET bt == {j \in (p + 2)..Len(s) : s[j] = Backtick}
    IN  IF bt = {} \/ Min(bt) = p + 2 THEN NoLoc
        ELSE [start |-> p, end |-> Min(bt),
              groups |-> <<SubSeq(s, p + 2, Min(bt) - 1)>>]

reInlineCode(s) == Leftmost([p \in 0..(Len(s) - 1) |-> reInlineCodeAt(s, p)])

\* dd(.+?)dd tried at offset p, for a doubled delimiter character d
reDelimAt(s, p, d) ==
  IF p + 2 > Len(s) \/ s[p + 1] # d \/ s[p + 2] # d THEN NoLoc
  ELSE
    LET close == {e \in (p + 4)..(Len(s) - 1) :
                    /\ s[e] = d /\ s[e + 1] = d
                    /\ \A k \in (p + 3)..(e - 1) : IsDot(s[k])}
    IN  IF close = {} THEN NoLoc
        ELSE [start |-> p, end |-> Min(close) + 1,
              groups |-> <<SubSeq(s, p + 3, Min(close) - 1)>>]

reMdBoldStarAt(s, p) == reDelimAt(s, p, "*")

\* \*\*(.+?)\*\*
reMdBoldStar(s) == Leftmost([p \in 0..(Len(s) - 1) |-> reMdBoldStarAt(s, p)])

reMdBoldUnderAt(s, p) == reDelimAt(s, p, "_")

\* __(.+?)__
reMdBoldUnder(s) == Leftmost([p \in 0..(Len(s) - 1) |-> reMdBoldUnderAt(s, p)])

reMdStrikeAt(s, p) == reDelimAt(s, p, "~")

\* ~~(.+?)~~
reMdStrike(s) == Leftmost([p \in 0..(Len(s) - 1) |-> reMdStrikeAt(s, p)])

\* number of consecutive characters of s, from index from on, of a class
Run(s, from, class) ==
  LET stop == {k \in from..Len(s) : s[k] \notin class}
  IN  IF stop = {} THEN Len(s) - from + 1 ELSE Min(stop) - from

\* reMdHeading with #{1,7} for #{1,6}
reMdHeadingSeven(s) ==
  LET h == Run(s, 1, {"#"})
      w == Run(s, h + 1, ReSpace)
      g == IF h + w < Len(s) THEN h + w ELSE h + w - 1
  IN  IF h < 1 \/ h > 7 \/ w < 1 THEN NoLoc
      ELSE IF g <= h THEN NoLoc
      ELSE [start |-> 0, end |-> Len(s), groups |-> <<SubSeq(s, g + 1, Len(s))>>]

\* reMdHeading with (.*) for (.+): nothing is given back to the capture
reMdHeadingAnyRest(s) ==
  LET h == Run(s, 1, {"#"})
      w == Run(s, h + 1, ReSpace)
  IN  IF h < 1 \/ h > 6 \/ w < 1 THEN NoLoc
      ELSE [start |-> 0, end |-> Len(s), groups |-> <<SubSeq(s, h + w + 1, Len(s))>>]

\* ^#{1,6}\s+(.+)$ : the hashes and the whitespace are greedy, and the
\* whitespace gives one character back when nothing else is left for (.+)
reMdHeading(s) ==
  LET h == Run(s, 1, {"#"})
      w == Run(s, h + 1, ReSpace)
      g == IF h + w < Len(s) THEN h + w ELSE h + w - 1
  IN  IF h < 1 \/ h > 6 \/ w < 1 THEN NoLoc
      ELSE IF g <= h THEN NoLoc
      ELSE IF \E k \in (g + 1)..Len(s) : ~IsDot(s[k]) THEN NoLoc
      ELSE [start |-> 0, end |-> Len(s), groups |-> <<SubSeq(s, g + 1, Len(s))>>]

(***************************************************************************)
(* postElement values.                                                     *)
(***************************************************************************)
PlainEl(t) == [tag |-> "text", text |-> t]

StyledEl(t, st) == [tag |-> "text", text |-> t, style |-> <<st>>]

LinkEl(t, h) == [tag |-> "a", text |-> t, href |-> h]

(***************************************************************************)
(* The competition of the five patterns in parseInlineElements.            *)
(***************************************************************************)
NoMatch == [start |-> -1, end |-> -1, typ |-> "nil", groups |-> <<>>]

\* Consider with the comparison of the offsets turned around
ConsiderLater(earliest, loc, typ) ==
  IF loc.start >= 0 /\ (earliest.start < 0 \/ loc.start > earliest.start)
  THEN [start |-> loc.start, end |-> loc.end, typ |-> typ, groups |-> loc.groups]
  ELSE earliest

\* if loc != nil { if earliest == nil || loc[0] < earliest.start { earliest = ... } }
Consider(earliest, loc, typ) ==
  IF loc.start >= 0 /\ (earliest.start < 0 \/ loc.start < earliest.start)
  THEN [start |-> loc.start, end |-> loc.end, typ |-> typ, groups |-> loc.groups]
  ELSE earliest

Earliest(remaining) ==
  LET e1 == Consider(NoMatch, reMdLink(remaining), "link")
      e2 == Consider(e1, reInlineCode(remaining), "code")
      e3 == Consider(e2, reMdBoldStar(remaining), "bold")
      e4 == Consider(e3, reMdBoldUnder(remaining), "bold")
      e5 == Consider(e4, reMdStrike(remaining), "strike")
  IN  e5

\* MatchedElement with strikethrough text also set in italics
MatchedElementItalic(e) ==
  CASE e.typ = "link"   -> LinkEl(e.groups[1], e.groups[2])
    [] e.typ = "code"   -> StyledEl(e.groups[1], "code_block")
    [] e.typ = "bold"   -> StyledEl(e.groups[1], "bold")
    [] e.typ = "strike" -> [tag |-> "text", text |-> e.groups[1],
                            style |-> <<"lineThrough", "italic">>]

\* the switch on earliest.typ
MatchedElement(e) ==
  CASE e.typ = "link"   -> LinkEl(e.groups[1], e.groups[2])
    [] e.typ = "code"   -> StyledEl(e.groups[1], "code_block")
    [] e.typ = "bold"   -> StyledEl(e.groups[1], "bold")
    [] e.typ = "strike" -> StyledEl(e.groups[1], "lineThrough")

\* PrefixElements without the test of the start offset
PrefixElementsAlways(remaining, e) ==
  <<PlainEl(SubSeq(remaining, 1, e.start))>>

\* the text before the match, when there is any
PrefixElements(remaining, e) ==
  IF e.start > 0 THEN <<PlainEl(SubSeq(remaining, 1, e.start))>> ELSE <<>>

\* StripListMarker taking any leading asterisk or dash for a list marker
StripListMarkerAnyStar(raw) ==
  LET t == TrimSpace(raw)
  IN  IF HasPrefix(t, <<"-">>) \/ HasPrefix(t, <<"*">>)
      THEN <<Bullet, " ">> \o SubSeq(t, 3, Len(t))
      ELSE t

\* the list-marker preprocessing of parseInlineElements
StripListMarker(raw) ==
  LET t == TrimSpace(raw)
      u == IF HasPrefix(t, <<"-", " ">>) \/ HasPrefix(t, <<"*", " ">>)
           THEN <<Bullet, " ">> \o SubSeq(t, 3, Len(t))
           ELSE t
  IN  \* numbered list, keep as-is
      IF Len(u) > 2 /\ IsDigit(u[1]) /\ u[2] = "." THEN u ELSE u

(***************************************************************************)
(* The block tests of markdownToFeishuPost.                                *)
(***************************************************************************)
Fence == <<Backtick, Backtick, Backtick>>

IsFenceLine(l) == HasPrefix(TrimSpace(l), Fence)

IsEmptyLine(l) == TrimSpace(l) = <<>>

\* ScanCodeBlock stopping at an empty line as well
ScanCodeBlockToBlank(ls, j, codeLines) ==
  LET stop == {k \in j..(Len(ls) - 1) : IsFenceLine(ls[k + 1]) \/ IsEmptyLine(ls[k + 1])}
      to == IF stop = {} THEN Len(ls) ELSE Min(stop)
  IN  [i |-> to, codeLines |-> SubSeq(ls, j + 1, to)]

RECURSIVE ScanCodeBlock(_, _, _)
\* the inner loop of the code block branch, entered with j just past the
\* opening fence; returns the index it stops at and the lines collected
ScanCodeBlock(ls, j, codeLines) ==
  IF j < Len(ls) /\ ~IsFenceLine(ls[j + 1])
  THEN ScanCodeBlock(ls, j + 1, Append(codeLines, ls[j + 1]))
  ELSE [i |-> j, codeLines |-> codeLines]

(***************************************************************************)
(* encoding/json, as far as the converter uses it.                         *)
(***************************************************************************)
NilErr == "nil"

\* a nil slice is encoded as null, any other as an array
MarshalSlice(sl) == IF sl = <<>> THEN [null |-> TRUE] ELSE [array |-> sl]

\* the post map built at the end of markdownToFeishuPost
PostObject(cl) == [zh_cn |-> [content |-> MarshalSlice(cl)]]

\* TextObject over the trimmed text
TextObjectTrimmed(c) == [text |-> TrimSpace(c)]

\* map[string]string{"text": content}
TextObject(c) == [text |-> c]

EmptyString == [empty |-> TRUE]

MsgTypePost == "post"

MsgTypeText == "text"

(***************************************************************************)
(* The inputs explored: texts glued from a few fragments of raw markup,    *)
(* lines glued from a few complete inline constructs, texts of a few       *)
(* source lines, and the worked examples of the design notes.              *)
(***************************************************************************)
RawFrags ==
  { <<"a">>, <<" ">>, <<"*">>, <<"*", "*">>, <<Backtick>>, <<"~", "~">>,
    <<"_", "_">>, <<"[", "a", "]">>, <<"(", "b", ")">>, <<"-", " ">>,
    <<"#">>, <<"\n">>, Fence }

Spans ==
  { <<"a">>, <<" ">>,
    <<"[", "a", "]", "(", "b", ")">>,
    <<Backtick, "c", Backtick>>,
    <<"*", "*", "d", "*", "*">>,
    <<"_", "_", "e", "_", "_">>,
    <<"~", "~", "f", "~", "~">> }

SrcLines ==
  { <<>>, <<" ", " ">>, Fence, <<" ">> \o Fence \o <<"g", "o">>,
    <<"#", " ", "a">>, <<"#", "\t", " ">>, <<"#", "#", "#", "#", "#", "#", "#", " ", "a">>,
    <<" ", "#", " ", "a">>, <<"a">>, <<"*", " ", "*", "*", "a", "*", "*">> }

RECURSIVE Glued(_, _)
\* the concatenations of at most n members of parts
Glued(parts, n) ==
  IF n = 0 THEN {<<>>}
  ELSE LET shorter == Glued(parts, n - 1)
       IN  shorter \cup {t \o f : t \in shorter, f \in parts}

Texts(n) == {Join(ls) : ls \in UNION {[1..k -> SrcLines] : k \in 1..n}}

Examples ==
  { <<"S", "e", "e", " ", "[", "d", "o", "c", "s", "]", "(", "h", "t", "t", "p", ":", "/", "/", "x", ")",
      " ", "a", "n", "d", " ", "*", "*", "b", "o", "l", "d", "*", "*">>,
    <<Backtick, "c", "o", "d", "e", Backtick, " ", "a", "n", "d", " ", "*", "*", "b", "o", "l", "d", "*", "*">>,
    <<Backtick, Backtick, Backtick, "\n", "A", "\n", "B">>,
    <<"#", "#", " ", "T", "i", "t", "l", "e">>,
    <<"1", ".", " ", "a">>,
    <<"x", " ", "*", "*", "[", "a", "]", "(", "b", ")", "*", "*">> }

Inputs ==
  Glued(RawFrags, MaxFrags) \cup Glued(Spans, MaxSpans) \cup Texts(MaxLines) \cup Examples

(***************************************************************************)
(* State.                                                                  *)
(***************************************************************************)
VARIABLES
  content,       \* the argument of buildFeishuContent
  pc,            \* the position of the call
  lines,         \* markdownToFeishuPost: strings.Split(text, "\n")
  i,             \* markdownToFeishuPost: index of the next source line
  contentLines,  \* markdownToFeishuPost: the lines of the post so far
  line,          \* parseInlineElements: the line after preprocessing
  remaining,     \* parseInlineElements: the text not yet tokenized
  elements,      \* parseInlineElements: the elements so far
  postPayload,   \* buildFeishuContent: result of markdownToFeishuPost
  postErr,       \* buildFeishuContent: error of markdownToFeishuPost
  msgType,       \* the returned message type
  payload,       \* the returned payload
  err,           \* the returned error
  history        \* the calls that have returned: input, encoded Document, results

vars == <<content, pc, lines, i, contentLines, line, remaining, elements,
          postPayload, postErr, msgType, payload, err, history>>

inlineVars == <<line, remaining, elements>>

resultVars == <<postPayload, postErr, msgType, payload, err>>

Init ==
  /\ content \in Inputs
  /\ pc = "call"
  /\ lines = <<>>
  /\ i = 0
  /\ contentLines = <<>>
  /\ line = <<>>
  /\ remaining = <<>>
  /\ elements = <<>>
  /\ postPayload = EmptyString
  /\ postErr = NilErr
  /\ msgType = ""
  /\ payload = EmptyString
  /\ err = NilErr
  /\ history = <<>>

(***************************************************************************)
(* markdownToFeishuPost                                                    *)
(***************************************************************************)
\* SplitLines going on with the lines of the post of the call before
SplitLinesKeeping ==
  /\ pc = "call"
  /\ lines' = Split(content)
  /\ i' = 0
  /\ pc' = "block"
  /\ UNCHANGED <<content, history, contentLines, inlineVars, resultVars>>

\* buildFeishuContent calls markdownToFeishuPost, which splits the text
SplitLines ==
  /\ pc = "call"
  /\ lines' = Split(content)
  /\ i' = 0
  /\ contentLines' = <<>>
  /\ pc' = "block"
  /\ UNCHANGED <<content, history, inlineVars, resultVars>>

\* CodeBlock stepping back onto the last line when no fence closes the block
CodeBlockStuck ==
  /\ pc = "block"
  /\ i < Len(lines)
  /\ IsFenceLine(lines[i + 1])
  /\ LET scan == ScanCodeBlock(lines, i + 1, <<>>)
     IN  /\ i' = IF scan.i < Len(lines) THEN scan.i + 1 ELSE scan.i - 1
         /\ contentLines' =
              Append(contentLines, <<StyledEl(Join(scan.codeLines), "code_block")>>)
  /\ UNCHANGED <<content, history, pc, lines, inlineVars, resultVars>>

\* a fence line: the whole block up to and including the closing fence
CodeBlock ==
  /\ pc = "block"
  /\ i < Len(lines)
  /\ IsFenceLine(lines[i + 1])
  /\ LET scan == ScanCodeBlock(lines, i + 1, <<>>)
     IN  /\ i' = IF scan.i < Len(lines) THEN scan.i + 1 ELSE scan.i
         /\ contentLines' =
              Append(contentLines, <<StyledEl(Join(scan.codeLines), "code_block")>>)
  /\ UNCHANGED <<content, history, pc, lines, inlineVars, resultVars>>

Heading ==
  /\ pc = "block"
  /\ i < Len(lines)
  /\ ~IsFenceLine(lines[i + 1])
  /\ reMdHeading(lines[i + 1]).start >= 0
  /\ contentLines' =
       Append(contentLines, <<StyledEl(reMdHeading(lines[i + 1]).groups[1], "bold")>>)
  /\ i' = i + 1
  /\ UNCHANGED <<content, history, pc, lines, inlineVars, resultVars>>

\* EmptyLine without the append
EmptyLineDropped ==
  /\ pc = "block"
  /\ i < Len(lines)
  /\ ~IsFenceLine(lines[i + 1])
  /\ reMdHeading(lines[i + 1]).start < 0
  /\ IsEmptyLine(lines[i + 1])
  /\ i' = i + 1
  /\ UNCHANGED <<content, history, pc, lines, contentLines, inlineVars, resultVars>>

EmptyLine ==
  /\ pc = "block"
  /\ i < Len(lines)
  /\ ~IsFenceLine(lines[i + 1])
  /\ reMdHeading(lines[i + 1]).start < 0
  /\ IsEmptyLine(lines[i + 1])
  /\ contentLines' = Append(contentLines, <<PlainEl(<<>>)>>)
  /\ i' = i + 1
  /\ UNCHANGED <<content, history, pc, lines, inlineVars, resultVars>>

\* a normal line: parseInlineElements is entered
NormalLine ==
  /\ pc = "block"
  /\ i < Len(lines)
  /\ ~IsFenceLine(lines[i + 1])
  /\ reMdHeading(lines[i + 1]).start < 0
  /\ ~IsEmptyLine(lines[i + 1])
  /\ line' = StripListMarker(lines[i + 1])
  /\ remaining' = line'
  /\ elements' = <<>>
  /\ pc' = IF line' # <<>> THEN "inline" ELSE "inline_ret"
  /\ UNCHANGED <<content, history, lines, i, contentLines, resultVars>>

(***************************************************************************)
(* parseInlineElements: one iteration of the loop                          *)
(***************************************************************************)
\* some pattern matches: prefix, matched element, advance
MatchStep ==
  /\ pc = "inline"
  /\ Earliest(remaining).start >= 0
  /\ LET e == Earliest(remaining)
     IN  /\ elements' = elements \o PrefixElements(remaining, e) \o <<MatchedElement(e)>>
         /\ remaining' = SubSeq(remaining, e.end + 1, Len(remaining))
  /\ pc' = IF remaining' # <<>> THEN "inline" ELSE "inline_ret"
  /\ UNCHANGED <<content, history, lines, i, contentLines, line, resultVars>>

\* NoMatchStep emitting nothing for a rest without letters
NoMatchStepSilent ==
  /\ pc = "inline"
  /\ Earliest(remaining).start < 0
  /\ elements' = IF \E k \in 1..Len(remaining) : remaining[k] \in {"a", "b", "x"}
                 THEN Append(elements, PlainEl(remaining))
                 ELSE elements
  /\ pc' = "inline_ret"
  /\ UNCHANGED <<content, history, lines, i, contentLines, line, remaining, resultVars>>

\* NoMatchStep emitting the rest without its markers
NoMatchStepStripped ==
  /\ pc = "inline"
  /\ Earliest(remaining).start < 0
  /\ elements' = Append(elements,
                        PlainEl(SelectSeq(remaining, LAMBDA c : c \notin {"*", "_", "~", Backtick, "["})))
  /\ pc' = "inline_ret"
  /\ UNCHANGED <<content, history, lines, i, contentLines, line, remaining, resultVars>>

\* no pattern matches: the rest is plain text, and the loop is left
NoMatchStep ==
  /\ pc = "inline"
  /\ Earliest(remaining).start < 0
  /\ elements' = IF remaining # <<>> THEN Append(elements, PlainEl(remaining)) ELSE elements
  /\ pc' = "inline_ret"
  /\ UNCHANGED <<content, history, lines, i, contentLines, line, remaining, resultVars>>

\* back in markdownToFeishuPost: the elements become a line if there are any
AppendLine ==
  /\ pc = "inline_ret"
  /\ contentLines' = IF Len(elements) > 0 THEN Append(contentLines, elements) ELSE contentLines
  /\ i' = i + 1
  /\ pc' = "block"
  /\ UNCHANGED <<content, history, lines, inlineVars, resultVars>>

(***************************************************************************)
(* json.Marshal(post) and buildFeishuContent.  The encoder is a            *)
(* collaborator that either returns the encoding or an error; it is a      *)
(* function of the value it is given, so it answers for a value as it      *)
(* answered for that value in an earlier call.                             *)
(***************************************************************************)
\* the errors json.Marshal has returned for the post of the Document cl
PostAnswers(cl) == {history[k].postErr : k \in {x \in DOMAIN history : history[x].doc = cl}}

\* the errors json.Marshal has returned for the fallback payload of text c
TextAnswers(c) ==
  {history[k].err : k \in {x \in DOMAIN history :
                              history[x].content = c /\ history[x].postErr # NilErr}}

\* the record of a call that returns (t, p, e)
Returned(t, p, e) ==
  [content |-> content, doc |-> contentLines, postErr |-> postErr,
   msgType |-> t, payload |-> p, err |-> e]

MarshalPostOk ==
  /\ pc = "block"
  /\ i >= Len(lines)
  /\ PostAnswers(contentLines) \subseteq {NilErr}
  /\ postPayload' = PostObject(contentLines)
  /\ postErr' = NilErr
  /\ pc' = "post_ret"
  /\ UNCHANGED <<content, history, lines, i, contentLines, inlineVars, msgType, payload, err>>

MarshalPostErr ==
  /\ pc = "block"
  /\ i >= Len(lines)
  /\ NilErr \notin PostAnswers(contentLines)
  /\ postPayload' = EmptyString
  /\ postErr' = "post marshal error"
  /\ pc' = "post_ret"
  /\ UNCHANGED <<content, history, lines, i, contentLines, inlineVars, msgType, payload, err>>

ReturnPost ==
  /\ pc = "post_ret"
  /\ postErr = NilErr
  /\ msgType' = MsgTypePost
  /\ payload' = postPayload
  /\ err' = NilErr
  /\ pc' = "done"
  /\ history' = Append(history, Returned(MsgTypePost, postPayload, NilErr))
  /\ UNCHANGED <<content, lines, i, contentLines, inlineVars, postPayload, postErr>>

\* FallbackOk handing the error of the post encoding on
FallbackOkSurfacing ==
  /\ pc = "post_ret"
  /\ postErr # NilErr
  /\ TextAnswers(content) \subseteq {NilErr}
  /\ msgType' = MsgTypeText
  /\ payload' = TextObject(content)
  /\ err' = postErr
  /\ pc' = "done"
  /\ history' = Append(history, Returned(MsgTypeText, TextObject(content), postErr))
  /\ UNCHANGED <<content, lines, i, contentLines, inlineVars, postPayload, postErr>>

FallbackOk ==
  /\ pc = "post_ret"
  /\ postErr # NilErr
  /\ TextAnswers(content) \subseteq {NilErr}
  /\ msgType' = MsgTypeText
  /\ payload' = TextObject(content)
  /\ err' = NilErr
  /\ pc' = "done"
  /\ history' = Append(history, Returned(MsgTypeText, TextObject(content), NilErr))
  /\ UNCHANGED <<content, lines, i, contentLines, inlineVars, postPayload, postErr>>

FallbackErr ==
  /\ pc = "post_ret"
  /\ postErr # NilErr
  /\ NilErr \notin TextAnswers(content)
  /\ msgType' = ""
  /\ payload' = EmptyString
  /\ err' = "text marshal error"
  /\ pc' = "done"
  /\ history' = Append(history, Returned("", EmptyString, "text marshal error"))
  /\ UNCHANGED <<content, lines, i, contentLines, inlineVars, postPayload, postErr>>

Next ==
  \/ SplitLines
  \/ CodeBlock
  \/ Heading
  \/ EmptyLine
  \/ NormalLine
  \/ MatchStep
  \/ NoMatchStep
  \/ AppendLine
  \/ MarshalPostOk
  \/ MarshalPostErr
  \/ ReturnPost
  \/ FallbackOk
  \/ FallbackErr

Spec == Init /\ [][Next]_vars

(***************************************************************************)
(* Properties.                                                             *)
(***************************************************************************)
Range(f) == {f[k] : k \in DOMAIN f}

\* the five candidates in the order the code evaluates them
Candidates(s) ==
  <<reMdLink(s), reInlineCode(s), reMdBoldStar(s), reMdBoldUnder(s), reMdStrike(s)>>

CandidateTyp == <<"link", "code", "bold", "bold", "strike">>

\* the candidates of c that matched
Hits(c) == {k \in 1..5 : c[k].start >= 0}

\* the candidate that starts first, the first in evaluation order on a tie
Winner(c) ==
  LET m == Min({c[k].start : k \in Hits(c)})
  IN  Min({k \in Hits(c) : c[k].start = m})

\* C1: in every iteration of the loop of parseInlineElements the match the
\* code settles on is the candidate with the smallest start offset in the
\* remaining text, and among candidates starting there the first in the
\* order link, inline code, bold **, bold __, strikethrough; it is nil
\* exactly when no candidate matches.
C1_EarliestWins ==
  pc = "inline" =>
    LET e == Earliest(remaining)
        cs == Candidates(remaining)
    IN  IF Hits(cs) = {} THEN e.start < 0
        ELSE LET w == Winner(cs)
             IN  /\ e.start = cs[w].start
                 /\ e.end = cs[w].end
                 /\ e.groups = cs[w].groups
                 /\ e.typ = CandidateTyp[w]
                 /\ \A k \in Hits(cs) : e.start <= cs[k].start

\* a link matches further right, and another pattern that starts earlier wins
C1_Witness ==
  /\ pc = "inline"
  /\ Cardinality(Hits(Candidates(remaining))) >= 2
  /\ 1 \in Hits(Candidates(remaining))
  /\ Earliest(remaining).typ # "link"

CandidateStyle == <<"", "code_block", "bold", "bold", "lineThrough">>

\* the element the winning candidate w with captures g stands for
RunOf(w, g) ==
  IF w = 1 THEN [tag |-> "a", text |-> g[1], href |-> g[2]]
  ELSE [tag |-> "text", text |-> g[1], style |-> <<CandidateStyle[w]>>]

SeeDocs ==
  <<"S", "e", "e", " ", "[", "d", "o", "c", "s", "]", "(", "h", "t", "t", "p", ":", "/", "/", "x", ")",
    " ", "a", "n", "d", " ", "*", "*", "b", "o", "l", "d", "*", "*">>

SeeDocsRuns ==
  << [tag |-> "text", text |-> <<"S", "e", "e", " ">>],
     [tag |-> "a", text |-> <<"d", "o", "c", "s">>,
      href |-> <<"h", "t", "t", "p", ":", "/", "/", "x">>],
     [tag |-> "text", text |-> <<" ", "a", "n", "d", " ">>],
     [tag |-> "text", text |-> <<"b", "o", "l", "d">>, style |-> <<"bold">>] >>

\* C2: an iteration of the loop in which a pattern wins appends, in this
\* order, the text before the match as one plain run exactly when the match
\* does not start at offset 0, then one element for the match (a link with
\* text capture 1 and href capture 2, otherwise a styled run whose text is
\* the capture as it stands), and continues with the text just past the
\* match; "See [docs](http://x) and **bold**" comes out as plain "See ",
\* link ("docs", "http://x"), plain " and ", bold "bold".
C2_LeftToRight ==
  [][ /\ (pc = "inline" /\ Hits(Candidates(remaining)) # {}) =>
           LET w == Winner(Candidates(remaining))
               c == Candidates(remaining)[w]
               before == IF c.start # 0
                         THEN <<[tag |-> "text", text |-> SubSeq(remaining, 1, c.start)]>>
                         ELSE <<>>
           IN  /\ elements' = elements \o before \o <<RunOf(w, c.groups)>>
               /\ remaining' = SubSeq(remaining, c.end + 1, Len(remaining))
      /\ (content = SeeDocs /\ pc' = "inline_ret") => elements' = SeeDocsRuns
    ]_vars

\* a bold run whose capture holds a whole link, after a plain prefix was
\* emitted in an earlier iteration
C2_Witness ==
  /\ pc = "inline_ret"
  /\ Len(elements) >= 2
  /\ elements[1].tag = "text" /\ "style" \notin DOMAIN elements[1]
  /\ \E k \in 2..Len(elements) :
       /\ "style" \in DOMAIN elements[k]
       /\ reMdLink(elements[k].text).start >= 0

\* C3: a fence line opens a block that yields exactly one Line with exactly
\* one code_block run; its text is the source lines strictly between the
\* opening fence and the next fence line (or the end of the input when there
\* is none) joined by newline, uninterpreted; nothing is raised, and the
\* next line looked at is the one after the closing fence.
C3_FencedBlock ==
  [][ (pc = "block" /\ i < Len(lines) /\ IsFenceLine(lines[i + 1])) =>
        LET later == {j \in (i + 2)..Len(lines) : IsFenceLine(lines[j])}
            close == IF later = {} THEN Len(lines) + 1 ELSE Min(later)
            body == SubSeq(lines, i + 2, close - 1)
        IN  /\ Len(contentLines') = Len(contentLines) + 1
            /\ SubSeq(contentLines', 1, Len(contentLines)) = contentLines
            /\ LET ln == contentLines'[Len(contentLines')]
               IN  /\ Len(ln) = 1
                   /\ DOMAIN ln[1] = {"tag", "text", "style"}
                   /\ ln[1].tag = "text"
                   /\ ln[1].style = <<"code_block">>
                   /\ IF body = <<>> THEN ln[1].text = <<>> ELSE Split(ln[1].text) = body
            /\ i' = IF later = {} THEN Len(lines) ELSE close
            /\ pc' = "block"
            /\ err' = NilErr /\ postErr' = NilErr
    ]_vars

\* an unterminated block that swallowed a heading line and one more line
C3_Witness ==
  /\ pc = "block"
  /\ i = Len(lines)
  /\ Len(lines) = 3
  /\ ~IsFenceLine(lines[3])
  /\ reMdHeading(lines[2]).start >= 0
  /\ contentLines = <<<<StyledEl(lines[2] \o <<"\n">> \o lines[3], "code_block")>>>>

\* the source lines strictly between the fence line at index i and the next
\* fence line, or the end of the input
FenceBody(ls, at) ==
  LET later == {j \in (at + 2)..Len(ls) : IsFenceLine(ls[j])}
  IN  SubSeq(ls, at + 2, IF later = {} THEN Len(ls) ELSE Min(later) - 1)

\* the runs of the Line a step appends to the document, if it appends one
Appended(before, after) ==
  IF Len(after) = Len(before) + 1 THEN Range(after[Len(after)]) ELSE {}

\* C4 as claimed: a link run never has empty text, and a text run has empty
\* text only in the Line made from a blank source line.
C4_EmptyOnlyForBlank ==
  [][ /\ \A r \in Range(elements') : r.text # <<>>
      /\ \A r \in Appended(contentLines, contentLines') :
           /\ r.tag = "a" => r.text # <<>>
           /\ r.text = <<>> => (pc = "block" /\ IsEmptyLine(lines[i + 1]))
    ]_vars

\* C4 (amended): a link run never has empty text, and a text run has empty
\* text only in the Line made from a blank source line or from a fenced
\* code block with nothing, or one empty line, between its fences; no
\* heading run and no run of the tokenizer has empty text.
C4_EmptyOnlyForBlankOrEmptyFence ==
  [][ /\ \A r \in Range(elements') : r.text # <<>>
      /\ \A r \in Appended(contentLines, contentLines') :
           /\ r.tag = "a" => r.text # <<>>
           /\ r.text = <<>> =>
                /\ pc = "block"
                /\ \/ IsEmptyLine(lines[i + 1])
                   \/ /\ IsFenceLine(lines[i + 1])
                      /\ FenceBody(lines, i) \in {<<>>, <<<<>>>>}
    ]_vars

\* a document with the empty run of a blank line, the empty run of an empty
\* fenced block, and a heading
C4_Witness ==
  /\ pc = "post_ret"
  /\ Len(contentLines) = 3
  /\ PlainEl(<<>>) \in Range(contentLines[1]) \cup Range(contentLines[2]) \cup Range(contentLines[3])
  /\ StyledEl(<<>>, "code_block")
       \in Range(contentLines[1]) \cup Range(contentLines[2]) \cup Range(contentLines[3])
  /\ \E k \in 1..3 : \E r \in Range(contentLines[k]) :
       "style" \in DOMAIN r /\ r.style = <<"bold">>

PostShaped(p) == DOMAIN p = {"zh_cn"}

TextShaped(p) == DOMAIN p = {"text"}

\* C5 as claimed: the post tag and the structured payload when the Document
\* is encoded, the text tag and the untouched input as the only field
\* otherwise, and a tag that always fits the payload.
C5_TagMatchesPayload ==
  pc = "done" =>
    /\ postErr = NilErr =>
         /\ msgType = MsgTypePost
         /\ PostShaped(payload)
         /\ payload.zh_cn.content = [array |-> contentLines]
    /\ postErr # NilErr =>
         /\ msgType = MsgTypeText
         /\ TextShaped(payload)
         /\ payload.text = content
    /\ \/ msgType = MsgTypePost /\ PostShaped(payload)
       \/ msgType = MsgTypeText /\ TextShaped(payload)

\* C5 (amended): the post tag and the structured payload when the Document
\* is encoded; otherwise, when the plain-text payload is encoded, the text
\* tag and the untouched input as the only field; when that encoding fails
\* as well, an empty tag and an empty payload next to the error.  With a nil
\* error the tag fits the payload.
C5_TagMatchesPayloadUnlessError ==
  pc = "done" =>
    /\ postErr = NilErr =>
         /\ msgType = MsgTypePost
         /\ PostShaped(payload)
         /\ payload.zh_cn.content = [array |-> contentLines]
         /\ err = NilErr
    /\ (postErr # NilErr /\ err = NilErr) =>
         /\ msgType = MsgTypeText
         /\ TextShaped(payload)
         /\ payload.text = content
    /\ err # NilErr => (postErr # NilErr /\ msgType = "" /\ payload = EmptyString)
    /\ err = NilErr =>
         \/ msgType = MsgTypePost /\ PostShaped(payload)
         \/ msgType = MsgTypeText /\ TextShaped(payload)

\* the fallback taken for a text with markup and surrounding blanks
C5_Witness ==
  /\ pc = "done"
  /\ msgType = MsgTypeText
  /\ payload = [text |-> content]
  /\ content # TrimSpace(content)
  /\ \E k \in 1..Len(contentLines) : \E r \in Range(contentLines[k]) : "style" \in DOMAIN r

\* C6 as claimed: whatever the encoder does, a tag and a payload come back
\* with a nil error.
C6_NeverAnError ==
  pc = "done" => (err = NilErr /\ msgType \in {MsgTypePost, MsgTypeText})

\* C6 (amended): an error of the post encoding is never handed to the
\* caller: it leads to the fallback payload with a nil error.  The only
\* error returned is the one of encoding the fallback payload itself, with
\* an empty tag and an empty payload.
C6_OnlyFallbackEncodingErrors ==
  pc = "done" =>
    /\ err \in {NilErr, "text marshal error"}
    /\ err = NilErr => (msgType \in {MsgTypePost, MsgTypeText} /\ payload # EmptyString)
    /\ err # NilErr => (postErr # NilErr /\ msgType = "" /\ payload = EmptyString)

\* the post encoding failed and the caller got the fallback, not the error
C6_Witness ==
  /\ pc = "done"
  /\ postErr # NilErr
  /\ err = NilErr
  /\ msgType = MsgTypeText

\* C7: the primary payload is a root object with the single locale key,
\* whose object carries an empty title and the Document as content.
C7_TitleAndContent ==
  (pc = "post_ret" /\ postErr = NilErr) =>
    /\ DOMAIN postPayload = {"zh_cn"}
    /\ DOMAIN postPayload.zh_cn = {"title", "content"}
    /\ postPayload.zh_cn.title = <<>>
    /\ postPayload.zh_cn.content = [array |-> contentLines]

\* the ways to read l as k hashes (1 to 6) at column 0, w >= 1 whitespace
\* characters and a nonempty remainder
HeadingParts(l) ==
  {kw \in (1..6) \X (1..Len(l)) :
     /\ kw[1] + kw[2] < Len(l)
     /\ \A x \in 1..kw[1] : l[x] = "#"
     /\ \A x \in (kw[1] + 1)..(kw[1] + kw[2]) : l[x] \in ReSpace}

\* the remainder after the hashes and the longest separating whitespace
HeadingRemainder(l) ==
  LET kw == CHOOSE a \in HeadingParts(l) : \A b \in HeadingParts(l) : b[2] <= a[2]
  IN  SubSeq(l, kw[1] + kw[2] + 1, Len(l))

\* C8: a source line outside a fence is a heading exactly when it is 1 to 6
\* hashes at column 0, then whitespace, then a nonempty remainder.  A
\* heading yields exactly one Line with exactly one bold run, the remainder
\* without hashes and separating whitespace, and is not tokenized; any
\* other non-blank line, one with 7 hashes included, is tokenized as a
\* normal line.
C8_Heading ==
  [][ (pc = "block" /\ i < Len(lines) /\ ~IsFenceLine(lines[i + 1])) =>
        IF HeadingParts(lines[i + 1]) # {}
        THEN /\ contentLines' =
                  Append(contentLines,
                         <<[tag |-> "text", text |-> HeadingRemainder(lines[i + 1]),
                            style |-> <<"bold">>]>>)
             /\ i' = i + 1
             /\ pc' = "block"
             /\ UNCHANGED <<line, remaining, elements>>
        ELSE /\ ~IsEmptyLine(lines[i + 1]) =>
                  /\ pc' \in {"inline", "inline_ret"}
                  /\ line' = StripListMarker(lines[i + 1])
                  /\ remaining' = line'
                  /\ contentLines' = contentLines
             /\ \A r \in Appended(contentLines, contentLines') : "style" \notin DOMAIN r
    ]_vars

\* a heading made a bold Line, and the line of 7 hashes after it went
\* through the tokenizer and came out as plain text
C8_Witness ==
  /\ pc = "block"
  /\ i = 2
  /\ Len(lines[2]) > 7
  /\ \A x \in 1..7 : lines[2][x] = "#"
  /\ Len(contentLines) = 2
  /\ contentLines[1] = <<StyledEl(<<"a">>, "bold")>>
  /\ contentLines[2] = <<PlainEl(lines[2])>>

\* C9: the Document is built in block order with one Line per block: every
\* fenced, heading and blank block appends exactly one Line at the end (a
\* blank one the Line of one plain run with empty text), a normal block
\* appends the Line of its runs when the tokenizer is done, or nothing when
\* there are no runs, and nothing else changes the Document.
C9_OneLinePerBlock ==
  [][ /\ (pc = "block" /\ i < Len(lines)) =>
           IF \/ IsFenceLine(lines[i + 1])
              \/ HeadingParts(lines[i + 1]) # {}
              \/ IsEmptyLine(lines[i + 1])
           THEN /\ Len(contentLines') = Len(contentLines) + 1
                /\ SubSeq(contentLines', 1, Len(contentLines)) = contentLines
                /\ contentLines'[Len(contentLines')] # <<>>
                /\ (~IsFenceLine(lines[i + 1]) /\ IsEmptyLine(lines[i + 1])) =>
                     contentLines'[Len(contentLines')] = <<[tag |-> "text", text |-> <<>>]>>
                /\ pc' = "block"
           ELSE contentLines' = contentLines /\ pc' # "block"
      /\ pc = "inline_ret" =>
           /\ contentLines' = IF elements = <<>> THEN contentLines
                              ELSE contentLines \o <<elements>>
           /\ pc' = "block"
      /\ ~(pc = "block" /\ i < Len(lines)) /\ pc # "inline_ret" => contentLines' = contentLines
    ]_vars

\* heading, blank line and normal line came out as three Lines in that order
C9_Witness ==
  /\ pc = "post_ret"
  /\ Len(lines) = 3
  /\ Len(contentLines) = 3
  /\ "style" \in DOMAIN contentLines[1][1]
  /\ contentLines[2] = <<PlainEl(<<>>)>>
  /\ contentLines[3] = <<PlainEl(lines[3])>>

AllRuns ==
  Range(elements) \cup UNION {Range(contentLines[k]) : k \in 1..Len(contentLines)}

SpaceRunes == {"\t", "\n", "U+000B", "\f", "\r", " ", "U+0085", "U+00A0"}

\* raw without its surrounding whitespace: the span from its first to its
\* last character that is not whitespace
Stripped(raw) ==
  LET ns == {x \in 1..Len(raw) : raw[x] \notin SpaceRunes}
  IN  IF ns = {} THEN <<>>
      ELSE SubSeq(raw, CHOOSE x \in ns : \A y \in ns : x <= y,
                       CHOOSE x \in ns : \A y \in ns : y <= x)

\* C12: the line the tokenizer works on is the source line without its
\* surrounding whitespace, in which the two-character prefix "- " or "* ",
\* and nothing else, is replaced by the bullet glyph and a space; a line
\* starting with a digit and a dot and a line starting with ** stay as
\* they are.
C12_Preprocessing ==
  pc \in {"inline", "inline_ret"} =>
    LET t == Stripped(lines[i + 1])
    IN  IF Len(t) >= 2 /\ t[1] \in {"-", "*"} /\ t[2] = " "
        THEN /\ Len(line) = Len(t)
             /\ line[1] = Bullet
             /\ line[2] = " "
             /\ \A x \in 3..Len(t) : line[x] = t[x]
        ELSE line = t

\* a list item with a blank in front of its marker
C12_Witness ==
  /\ pc = "inline_ret"
  /\ IsSpace(lines[i + 1][1])
  /\ lines[i + 1][2] = "-"
  /\ line[1] = Bullet
  /\ Len(line) > 2
  /\ elements = <<PlainEl(line)>>

RECURSIVE BlocksBetween(_, _, _)
\* the number of blocks that the source lines from index at up to index n are
\* split into, n being the start of a block or the end of the input
BlocksBetween(ls, at, n) ==
  IF at >= n THEN 0
  ELSE IF IsFenceLine(ls[at + 1])
       THEN LET later == {j \in (at + 2)..Len(ls) : IsFenceLine(ls[j])}
            IN  1 + BlocksBetween(ls, IF later = {} THEN Len(ls) ELSE Min(later), n)
       ELSE 1 + BlocksBetween(ls, at + 1, n)

\* C14: parseInlineElements returns at least one run for every line that
\* reaches it, so the branch that omits a Line is never taken, and between
\* blocks the Document has as many Lines as there were blocks.
C14_NeverZeroRuns ==
  /\ pc = "inline_ret" => Len(elements) >= 1
  /\ pc \in {"block", "post_ret", "done"} =>
       Len(contentLines) = BlocksBetween(lines, 0, i)

\* two normal lines, one of them nothing but an unmatched marker, made two
\* Lines
C14_Witness ==
  /\ pc = "post_ret"
  /\ Len(lines) = 2
  /\ Len(contentLines) = 2
  /\ \A k \in 1..2 : ~IsFenceLine(lines[k]) /\ ~IsEmptyLine(lines[k])
                     /\ HeadingParts(lines[k]) = {}
  /\ \E k \in 1..2 : lines[k] \in {<<"*", "*">>, <<"*">>, <<"#">>, <<"_", "_">>}

MaxTermFrags == 2

\* the state at the start of a call on one of a smaller set of inputs
InitTerm ==
  /\ content \in Glued(RawFrags, MaxTermFrags) \cup Examples
  /\ pc = "call"
  /\ lines = <<>>
  /\ i = 0
  /\ contentLines = <<>>
  /\ line = <<>>
  /\ remaining = <<>>
  /\ elements = <<>>
  /\ postPayload = EmptyString
  /\ postErr = NilErr
  /\ msgType = ""
  /\ payload = EmptyString
  /\ err = NilErr
  /\ history = <<>>

\* the converter is straight-line code on one goroutine: it takes its next
\* step whenever it has one
FairSpec == InitTerm /\ [][Next]_vars /\ WF_vars(Next)

\* C15: the conversion comes to an end: every pass of the block loop moves
\* the line index forward by at least one and not past the end, also when
\* a fence is never closed; every pass of the tokenizer loop leaves the loop
\* or shortens the remaining text, the winning match being a nonempty span
\* that ends after offset 0; and every call returns.
C15_Terminates ==
  /\ [][ /\ (pc = "block" /\ pc' = "block") => (i < i' /\ i' <= Len(lines))
         /\ pc = "inline_ret" => (i' = i + 1 /\ i' <= Len(lines))
         /\ pc = "inline" =>
              /\ i' = i
              /\ \/ pc' = "inline_ret"
                 \/ pc' = "inline" /\ Len(remaining') < Len(remaining)
              /\ Hits(Candidates(remaining)) # {} =>
                   LET c == Candidates(remaining)[Winner(Candidates(remaining))]
                   IN  /\ c.start < c.end
                       /\ 0 < c.end
                       /\ Len(remaining') = Len(remaining) - c.end
       ]_vars
  /\ <>(pc = "done")

\* a call whose text opens a fence and never closes it has returned, the
\* block loop having run to the last line
C15_Witness ==
  /\ pc = "done"
  /\ Len(lines) >= 3
  /\ IsFenceLine(lines[1])
  /\ \A k \in 2..Len(lines) : ~IsFenceLine(lines[k])
  /\ i = Len(lines)
  /\ Len(contentLines) = 1

(***************************************************************************)
(* The channel calls buildFeishuContent for one message after another      *)
(* (Send, EditMessage, SendPlaceholder).                                   *)
(***************************************************************************)
MaxCalls == 3

CallInputs ==
  { <<>>,
    <<"#", " ", "a", "\n", " ", "\n", "a">>,
    Fence \o <<"\n", "a">>,
    <<"a", "[", "a", "]", "(", "b", ")">>,
    <<" ", "*", "*", "d", "*", "*", "*">> }

\* the state at the start of the first call
InitCalls ==
  /\ content \in CallInputs
  /\ pc = "call"
  /\ lines = <<>>
  /\ i = 0
  /\ contentLines = <<>>
  /\ line = <<>>
  /\ remaining = <<>>
  /\ elements = <<>>
  /\ postPayload = EmptyString
  /\ postErr = NilErr
  /\ msgType = ""
  /\ payload = EmptyString
  /\ err = NilErr
  /\ history = <<>>

\* the next message: buildFeishuContent is called again, on any text, and
\* whatever the call before left behind is still lying around
Send ==
  /\ pc = "done"
  /\ Len(history) < MaxCalls
  /\ content' \in CallInputs
  /\ pc' = "call"
  /\ UNCHANGED <<history, lines, i, contentLines, inlineVars, resultVars>>

NextCalls ==
  \/ SplitLines
  \/ CodeBlock
  \/ Heading
  \/ EmptyLine
  \/ NormalLine
  \/ MatchStep
  \/ NoMatchStep
  \/ AppendLine
  \/ MarshalPostOk
  \/ MarshalPostErr
  \/ ReturnPost
  \/ FallbackOk
  \/ FallbackErr
  \/ Send

SpecCalls == InitCalls /\ [][NextCalls]_vars

\* C13: two calls of buildFeishuContent on the same input return the same
\* message type and payload (and error), whatever was converted before or
\* in between.
C13_SameInputSameResult ==
  \A a \in DOMAIN history : \A b \in DOMAIN history :
    history[a].content = history[b].content =>
      /\ history[a].msgType = history[b].msgType
      /\ history[a].payload = history[b].payload
      /\ history[a].err = history[b].err

\* the same text with markup converted twice, another text in between
C13_Witness ==
  /\ pc = "done"
  /\ Len(history) = 3
  /\ history[1].content = history[3].content
  /\ history[2].content # history[1].content
  /\ history[2].doc # <<>>
  /\ history[3].msgType = MsgTypePost
  /\ \E r \in Range(history[3].doc[1]) : r.tag = "a"
====
